---------------------------- MODULE Spec2Model ----------------------------
(***************************************************************************)
(* State-machine model of the AzureAd token validator (src/src/lib.rs,     *)
(* src/src/error.rs): the cached key set, the refresh rate limit, the      *)
(* two-step asynchronous key fetch and the token-validation decision.      *)
(***************************************************************************)
EXTENDS Integers, Sequences, FiniteSets, TLC

(***************************************************************************)
(* Bounds of the model.                                                    *)
(***************************************************************************)
\* clock resolution: ticks of the monotonic clock per second
TicksPerSec == 2
\* number of clock advances in one behaviour
MaxAdvance == 2
\* longest key-set document (number of key records) the provider serves
MaxKeys == 2
\* wall-clock second at which the behaviour starts
StartSecs == 1000
\* refresh calls counted in one run of consecutive refresh calls
MaxAttempts == 2

(***************************************************************************)
(* Program constants.                                                      *)
(***************************************************************************)
\* lib.rs:13  const KEYS_REFRESH_FREQUENCY_SECONDS: u64 = 60 * 60 * 8
KEYS_REFRESH_FREQUENCY_SECONDS == 60 * 60 * 8
\* lib.rs:61  Validation::new: the default leeway, in seconds, of the policy
DefaultLeeway == 60

\* Option<String>::None, and a claim that a payload does not carry
None == "None"
Absent == "Absent"
AbsentNum == 0 - 1
\* Option<Vec<String>>: no list, or Some(list)
NoList == <<>>
SomeList(S) == <<S>>

(***************************************************************************)
(* Values of the environment: key identifiers, RSA key material, issuers,  *)
(* audiences.                                                              *)
(***************************************************************************)
Kids == {"k1", "k2"}
\* RSA moduli the provider may publish; BadModulus is not valid base64url
Mats == {"m1", "m2"}
BadModulus == "!!"
Issuers == {"issA", "issB"}
Audiences == {"app-A", "app-B"}
Tenants == {"contoso"}
Policies == {"B2C_1_signin"}
\* caller's audience allow-list: Option<Vec<String>>
AppIdChoices == {NoList, SomeList({"app-A"}), SomeList({"app-B"})}

\* lib.rs:160-170  KeyMetadata {kid, n, e}: the key records the provider may
\* publish; k1 is published with either modulus, k2 also with a bad one
Key(kid, n) == [key_id |-> kid, rsa_modulus |-> n, rsa_exponent |-> "AQAB"]
KeyMetadata == {Key("k1", "m1"), Key("k1", "m2"), Key("k2", "m2"), Key("k2", BadModulus)}

\* lib.rs:155-158  KeysMetadata {keys: Vec<KeyMetadata>}
KeysMetadata == UNION {[1..n -> KeyMetadata] : n \in 0..MaxKeys}

\* lib.rs:149-153  OidMetadata {issuer: Option<String>, jwks_uri: String}
OidMetadata == [issuer : Issuers \cup {None}, jwks_uri : {"jwks"}]

(***************************************************************************)
(* error.rs: the error kinds.  Each carries its Display message.           *)
(***************************************************************************)
ErrorMessage(kind) ==
    CASE kind = "MissingKid" -> "Missing key ID field in JWT header"
      [] kind = "StrangeKid" -> "Key ID in JWT header is not in the list of acceptable keys"
      [] kind = "Http" -> "HTTP error: {0}"
      [] kind = "Jwt" -> "{0}"
      [] kind = "Unknown" -> "Unknown error occurred"

ErrorKinds == {"MissingKid", "StrangeKid", "Http", "Jwt", "Unknown"}

Error(kind, why) == [kind |-> kind, why |-> why]
NoErr == [kind |-> None, why |-> None]

(***************************************************************************)
(* Tokens.  A compact token string is modelled by what the JWT library     *)
(* reads from it: the header (BadHeader when decode_header cannot decode   *)
(* it), the private key that produced the signature (named by the modulus  *)
(* of its public half) and the claims payload.                             *)
(***************************************************************************)
Algorithms == {"RS256", "HS256"}
\* jsonwebtoken::Header: alg, and kid: Option<String>
Headers == [alg : Algorithms, kid : Kids \cup {None}]

\* wall-clock seconds used in exp / nbf
ExpPast == StartSecs - DefaultLeeway - 1
ExpFar == StartSecs + 10 * KEYS_REFRESH_FREQUENCY_SECONDS
NbfPast == StartSecs - DefaultLeeway - 1
\* an expiry one second before the behaviour starts
ExpJustPast == StartSecs - 1
NbfFar == ExpFar

BasePayload == [iss |-> "issA", sub |-> "user", aud |-> "app-A",
                exp |-> ExpFar, nbf |-> NbfPast, name |-> "alice"]

\* payloads with every registered claim in order, for each issuer and audience
GoodPayloads == {[BasePayload EXCEPT !.iss = i, !.aud = a] : i \in Issuers, a \in Audiences}

\* payloads with one defect each
DefectPayloads ==
    {[BasePayload EXCEPT !.iss = Absent], [BasePayload EXCEPT !.exp = AbsentNum],
     [BasePayload EXCEPT !.exp = ExpPast], [BasePayload EXCEPT !.nbf = NbfFar],
     [BasePayload EXCEPT !.name = Absent]}

Payloads == GoodPayloads \cup DefectPayloads

\* a string that is no JWT: decode_header cannot decode a header from it
Garbage == [wellformed |-> FALSE, hdr |-> [alg |-> "RS256", kid |-> None],
            sig |-> "m1", payload |-> BasePayload]

Tokens == {Garbage} \cup [wellformed : {TRUE}, hdr : Headers, sig : Mats, payload : Payloads]

Token(alg, kid, sig, payload) ==
    [wellformed |-> TRUE, hdr |-> [alg |-> alg, kid |-> kid], sig |-> sig, payload |-> payload]

\* the token of the round trip: kid k1, signed with the private key of m1
K1Token == Token("RS256", "k1", "m1", BasePayload)

\* the tokens the caller presents in a behaviour
CallerTokens ==
    {Garbage,
     K1Token,
     Token("RS256", "k2", "m2", BasePayload),
     Token("RS256", "k1", "m1", [BasePayload EXCEPT !.iss = "issB"]),
     Token("RS256", "k1", "m1", [BasePayload EXCEPT !.aud = "app-B"]),
     Token("RS256", "k1", "m1", [BasePayload EXCEPT !.exp = ExpPast]),
     Token("RS256", "k1", "m1", [BasePayload EXCEPT !.name = Absent]),
     Token("RS256", "k1", "m2", BasePayload),
     Token("HS256", "k1", "m1", BasePayload),
     Token("HS256", "k2", "m1", [BasePayload EXCEPT !.exp = ExpPast]),
     Token("RS256", None, "m1", BasePayload),
     Token("HS256", None, "m2", [BasePayload EXCEPT !.iss = Absent])}

\* the tokens of a caller whose conduct is observed: good tokens for either
\* key id, a token of the wrong algorithm and a token that has just expired
RetryTokens ==
    {K1Token,
     Token("RS256", "k2", "m2", BasePayload),
     Token("HS256", "k2", "m1", [BasePayload EXCEPT !.exp = ExpPast]),
     Token("RS256", "k1", "m1", [BasePayload EXCEPT !.exp = ExpJustPast])}

NoHeader == [alg |-> None, kid |-> None]
NoClaims == [sub |-> Absent, name |-> Absent]

(***************************************************************************)
(* jsonwebtoken primitives, as used by the validator.                      *)
(***************************************************************************)
\* lib.rs:102  decode_header(access_token)?
decode_header(token) ==
    IF ~token.wellformed
    THEN [ok |-> FALSE, err |-> Error("Jwt", "InvalidToken"), header |-> NoHeader]
    ELSE [ok |-> TRUE, err |-> NoErr, header |-> token.hdr]

\* lib.rs:142  DecodingKey::from_rsa_components(&key.rsa_modulus, &key.rsa_exponent)?
from_rsa_components(n, e) ==
    IF n = BadModulus
    THEN [ok |-> FALSE, err |-> Error("Jwt", "Base64"), key |-> None]
    ELSE [ok |-> TRUE, err |-> NoErr, key |-> n]

\* lib.rs:97  T: DeserializeOwned -- the caller's claims type, here a struct
\* {sub: String, name: String}; serde keeps the fields of T and fails when one
\* is missing from the payload
DeserializeT(payload) ==
    IF payload.sub = Absent \/ payload.name = Absent
    THEN [ok |-> FALSE, claims |-> NoClaims]
    ELSE [ok |-> TRUE, claims |-> [sub |-> payload.sub, name |-> payload.name]]

\* lib.rs:61-70  the rules of a Validation, applied to a payload at wall-clock
\* second `secs`; the result is "ok" or the name of the first rule that fails
Carries(payload, c) ==
    IF c \in {"exp", "nbf"} THEN payload[c] # AbsentNum ELSE payload[c] # Absent

ValidateClaims(payload, v, secs) ==
    IF \E c \in v.required_spec_claims : ~Carries(payload, c) THEN "MissingRequiredClaim"
    ELSE IF v.validate_exp /\ Carries(payload, "exp") /\ payload.exp < secs - v.leeway
         THEN "ExpiredSignature"
    ELSE IF v.validate_nbf /\ Carries(payload, "nbf") /\ payload.nbf > secs + v.leeway
         THEN "ImmatureSignature"
    ELSE IF v.aud # NoList /\ payload.aud \notin v.aud[1] THEN "InvalidAudience"
    ELSE IF v.iss # NoList /\ payload.iss \notin v.iss[1] THEN "InvalidIssuer"
    ELSE "ok"

\* variant: the algorithm is read from the token's header
AcceptedAlgorithms_header(header, v) == {header.alg}

\* lib.rs:61, lib.rs:108  the algorithms a decode accepts are those of the
\* Validation handed to it
AcceptedAlgorithms(header, v) == v.algorithms

\* variant: the signature is not verified
decode_insecure(token, key, v, secs) ==
    LET bad(why) == [ok |-> FALSE, err |-> Error("Jwt", why), claims |-> NoClaims]
        t == DeserializeT(token.payload)
        c == ValidateClaims(token.payload, v, secs)
    IN  IF token.hdr.alg \notin AcceptedAlgorithms(token.hdr, v) THEN bad("InvalidAlgorithm")
        ELSE IF ~t.ok THEN bad("Json")
        ELSE IF c # "ok" THEN bad(c)
        ELSE [ok |-> TRUE, err |-> NoErr, claims |-> t.claims]

\* lib.rs:108  decode(access_token, key, &self.validation)
decode(token, key, v, secs) ==
    LET bad(why) == [ok |-> FALSE, err |-> Error("Jwt", why), claims |-> NoClaims]
        t == DeserializeT(token.payload)
        c == ValidateClaims(token.payload, v, secs)
    IN  IF token.hdr.alg \notin AcceptedAlgorithms(token.hdr, v) THEN bad("InvalidAlgorithm")
        ELSE IF token.sig # key THEN bad("InvalidSignature")
        ELSE IF ~t.ok THEN bad("Json")
        ELSE IF c # "ok" THEN bad(c)
        ELSE [ok |-> TRUE, err |-> NoErr, claims |-> t.claims]

(***************************************************************************)
(* State.                                                                  *)
(***************************************************************************)
VARIABLES
    exists,                 \* an AzureAd value has been constructed
    tenant_name,            \* lib.rs:32
    policy_name,            \* lib.rs:33
    keys,                   \* lib.rs:34  HashMap<String, DecodingKey>
    last_key_refresh_time,  \* lib.rs:35  Instant, in ticks
    validation,             \* lib.rs:36  Validation
    now,                    \* the clock, in ticks since the constructor was called
    nadv,                   \* number of clock advances so far
    caller,                 \* the async call in flight: "none", "new", "refresh"
    pc,                     \* where the call in flight is suspended or stands
    loc,                    \* the locals of the call in flight
    last,                   \* what the last completed call returned
    snapKeys,               \* history: key set of the document the keys came from
    stable,                 \* history: the triple left by the last completed mutation
    nref,                   \* history: successful refresh_validation_keys calls so far
    k1ValidGen,             \* history: value of nref when K1Token was last Valid, or -1
    retry,                  \* history: the caller's retry protocol (token held, stage)
    app_ids_given,          \* history: the app_ids the constructor was called with
    built_at,               \* history: the clock when the constructor returned
    attempts                \* history: refresh calls that sent a GET and have not
                            \* succeeded, in the current run of consecutive refresh
                            \* calls (counted up to MaxAttempts)

obj == <<exists, tenant_name, policy_name, keys, last_key_refresh_time, validation>>
vars == <<exists, tenant_name, policy_name, keys, last_key_refresh_time, validation,
          now, nadv, caller, pc, loc, last, snapKeys, stable, nref, k1ValidGen, retry,
          app_ids_given, built_at, attempts>>
hist == <<snapKeys, stable, nref, k1ValidGen, app_ids_given, built_at>>

EmptyKeys == [k \in {} |-> "m1"]

\* the triple KeySet / RefreshState / ValidationPolicy of the validator
Triple == [keys |-> keys, time |-> last_key_refresh_time, validation |-> validation]
NoTriple == [keys |-> EmptyKeys, time |-> 0,
             validation |-> [algorithms |-> {}, required_spec_claims |-> {},
                             validate_exp |-> FALSE, validate_nbf |-> FALSE,
                             leeway |-> 0, aud |-> NoList, iss |-> NoList]]

\* lib.rs:120-123  the discovery URL built from tenant and policy
metadata_uri(tenant, policy) == <<"https://", tenant, ".b2clogin.com/", tenant,
                                  ".onmicrosoft.com/", policy,
                                  "/v2.0/.well-known/openid-configuration">>

NoDoc == <<>>
NoLoc == [app_ids |-> NoList, tenant |-> None, policy |-> None, uri |-> <<>>,
          issuer |-> None, doc |-> NoDoc, keys |-> EmptyKeys, gets |-> 0,
          pre |-> NoTriple]

Result(op, res, err) ==
    [op |-> op, res |-> res, err |-> err, tok |-> Garbage, claims |-> NoClaims,
     net |-> 0, doc |-> NoDoc, iss |-> None, pre |-> NoTriple, obs |-> NoTriple, at |-> 0]

\* the retry protocol of a caller, as far as it got: validate_access_token
\* answered NeedKeyRefresh for tok ("need"), the caller's refresh is fetching
\* ("fetching") or was rejected by the guard ("rejected"), the refresh
\* succeeded ("refreshed"), the caller presented tok again ("done").  Untracked: the protocol is not observed in this behaviour
Retry(tok, stage) == [tok |-> tok, stage |-> stage]
NoRetry == Retry(Garbage, "none")
Untracked == Retry(Garbage, "off")
Track(r) == IF retry = Untracked THEN retry ELSE r
\* the count of attempts is kept in the same behaviours
Count(n) == IF retry = Untracked THEN attempts ELSE n

\* no call has completed since the current one started
NoResult == Result("none", "-", NoErr)

\* seconds of wall-clock time at clock value t
WallSecs(t) == StartSecs + (t \div TicksPerSec)

\* lib.rs:83  Instant::elapsed().as_secs(): whole seconds, fraction dropped
ElapsedSecs == (now - last_key_refresh_time) \div TicksPerSec

Init ==
    /\ exists = FALSE
    /\ tenant_name = None
    /\ policy_name = None
    /\ keys = EmptyKeys
    /\ last_key_refresh_time = 0
    /\ validation = NoTriple.validation
    /\ now = 0
    /\ nadv = 0
    /\ caller = "none"
    /\ pc = "idle"
    /\ loc = NoLoc
    /\ last = NoResult
    /\ snapKeys = EmptyKeys
    /\ stable = NoTriple
    /\ nref = 0
    /\ k1ValidGen = 0 - 1
    /\ retry = Untracked
    /\ app_ids_given = NoList
    /\ built_at = 0
    /\ attempts = 0

(***************************************************************************)
(* The clock.                                                              *)
(***************************************************************************)
RefreshTicks == KEYS_REFRESH_FREQUENCY_SECONDS * TicksPerSec
\* the clock advances by the refresh interval, or by one tick less
Deltas == {RefreshTicks - 1, RefreshTicks}

\* time passes while the validator is idle or a fetch is awaited; the clock
\* starts when the constructor is called
Advance(d) ==
    /\ nadv < MaxAdvance
    /\ exists \/ caller = "new"
    /\ pc \in {"idle", "meta", "jwks"}
    /\ now' = now + d
    /\ nadv' = nadv + 1
    /\ attempts' = Count(IF caller = "none" THEN 0 ELSE attempts)
    /\ UNCHANGED <<obj, caller, pc, loc, last, hist, retry>>

(***************************************************************************)
(* refresh_keys (lib.rs:115-147): two GETs, then the conversion of the     *)
(* key records.                                                            *)
(***************************************************************************)
HttpErrors == {Error("Http", "transport"), Error("Http", "body")}

\* variant: a record that does not convert is left out (filter_map), the rest
\* is collected
Collect_skip_bad(doc) ==
    LET good == {i \in 1..Len(doc) :
                    from_rsa_components(doc[i].rsa_modulus, doc[i].rsa_exponent).ok}
        lastOf(k) == CHOOSE i \in good :
                        /\ doc[i].key_id = k
                        /\ \A j \in good : doc[j].key_id = k => j <= i
    IN  [ok |-> TRUE, err |-> NoErr,
         keys |-> [k \in {doc[i].key_id : i \in good} |->
                     from_rsa_components(doc[lastOf(k)].rsa_modulus,
                                         doc[lastOf(k)].rsa_exponent).key]]

\* lib.rs:136-145  the key records collected into a HashMap: the first record
\* that does not convert fails the whole collection; of two records with the
\* same kid the later one stays
Collect(doc) ==
    LET badAt == {i \in 1..Len(doc) :
                    ~from_rsa_components(doc[i].rsa_modulus, doc[i].rsa_exponent).ok}
        lastOf(k) == CHOOSE i \in 1..Len(doc) :
                        /\ doc[i].key_id = k
                        /\ \A j \in 1..Len(doc) : doc[j].key_id = k => j <= i
        first == CHOOSE i \in badAt : \A j \in badAt : i <= j
    IN  IF badAt # {}
        THEN [ok |-> FALSE,
              err |-> from_rsa_components(doc[first].rsa_modulus, doc[first].rsa_exponent).err,
              keys |-> EmptyKeys]
        ELSE [ok |-> TRUE, err |-> NoErr,
              keys |-> [k \in {doc[i].key_id : i \in 1..Len(doc)} |->
                          from_rsa_components(doc[lastOf(k)].rsa_modulus,
                                              doc[lastOf(k)].rsa_exponent).key]]

\* variant: a refresh empties the key set before it refills it, so a failed
\* refresh leaves it empty
ReturnErr_cleared(err) ==
    /\ last' = [Result(caller, "Err", err) EXCEPT !.net = loc.gets, !.pre = loc.pre]
    /\ caller' = "none"
    /\ pc' = "idle"
    /\ loc' = NoLoc
    /\ keys' = IF caller = "refresh" THEN EmptyKeys ELSE keys
    /\ retry' = Track(NoRetry)
    /\ UNCHANGED <<exists, tenant_name, policy_name, last_key_refresh_time, validation,
                   now, nadv, hist, attempts>>

\* variant: a failed fetch also sets the timestamp, so that the next call is
\* throttled like after a success
ReturnErr_stamp(err) ==
    /\ last' = [Result(caller, "Err", err) EXCEPT !.net = loc.gets, !.pre = loc.pre]
    /\ caller' = "none"
    /\ pc' = "idle"
    /\ loc' = NoLoc
    /\ retry' = Track(NoRetry)
    /\ last_key_refresh_time' = IF caller = "refresh" THEN now ELSE last_key_refresh_time
    /\ UNCHANGED <<exists, tenant_name, policy_name, keys, validation,
                   now, nadv, hist, attempts>>

\* the call in flight returns Err(err) to its caller: `?` at lib.rs:58 and :87
ReturnErr(err) ==
    /\ last' = [Result(caller, "Err", err) EXCEPT !.net = loc.gets, !.pre = loc.pre]
    /\ caller' = "none"
    /\ pc' = "idle"
    /\ loc' = NoLoc
    /\ retry' = Track(NoRetry)
    /\ UNCHANGED <<obj, now, nadv, hist, attempts>>

\* lib.rs:124-127  the discovery GET fails, or its body is no OidMetadata
MetaFails(err) ==
    /\ pc = "meta"
    /\ ReturnErr(err)

\* lib.rs:124-129  the discovery document arrives; the key-set GET is sent
MetaArrives(m) ==
    /\ pc = "meta"
    /\ pc' = "jwks"
    /\ loc' = [loc EXCEPT !.issuer = m.issuer, !.uri = <<m.jwks_uri>>, !.gets = loc.gets + 1]
    /\ UNCHANGED <<obj, now, nadv, caller, last, hist, retry, attempts>>

\* lib.rs:129-132  the key-set GET fails, or its body is no KeysMetadata
KeysFail(err) ==
    /\ pc = "jwks"
    /\ ReturnErr(err)

\* lib.rs:61-70  the Validation built by the constructor
NewValidation(app_ids, issuer) ==
    [algorithms |-> {"RS256"},
     required_spec_claims |-> {"iss", "sub", "exp", "nbf", "aud"},
     validate_exp |-> TRUE,
     validate_nbf |-> TRUE,
     leeway |-> DefaultLeeway,
     aud |-> app_ids,
     iss |-> IF issuer # None THEN SomeList({issuer}) ELSE NoList]

\* variant: a refresh builds a new Validation from the fetched issuer alone
SetIssuer_rebuild(v, issuer) ==
    [algorithms |-> {"RS256"},
     required_spec_claims |-> {"iss", "sub", "exp", "nbf", "aud"},
     validate_exp |-> TRUE,
     validate_nbf |-> TRUE,
     leeway |-> DefaultLeeway,
     aud |-> NoList,
     iss |-> IF issuer # None THEN SomeList({issuer}) ELSE NoList]

\* variant: a discovery document without issuer switches the issuer rule off,
\* as the constructor does
SetIssuer_reset(v, issuer) ==
    [v EXCEPT !.iss = IF issuer # None THEN SomeList({issuer}) ELSE NoList]

\* lib.rs:89-91  if let Some(issuer) = issuer { self.validation.set_issuer(&[issuer]) }
SetIssuer(v, issuer) ==
    IF issuer # None THEN [v EXCEPT !.iss = SomeList({issuer})] ELSE v

\* variant: the fetched keys are merged into the cached ones (HashMap::extend)
AssignKeys_extend(old, new) ==
    [k \in DOMAIN old \cup DOMAIN new |-> IF k \in DOMAIN new THEN new[k] ELSE old[k]]

\* variant: only key ids that are not cached yet are taken from the fetched keys
AssignKeys_insert_new(old, new) ==
    [k \in DOMAIN old \cup DOMAIN new |-> IF k \in DOMAIN old THEN old[k] ELSE new[k]]

\* variant: the fetched keys are dropped and the cached ones stay
AssignKeys_keep(old, new) == old

\* lib.rs:88  self.keys = keys
AssignKeys(old, new) == new

\* variant: the constructor leaves the timestamp one refresh interval in the
\* past, so that the first refresh is never too soon
NewRefreshTime_past == now - RefreshTicks

\* lib.rs:76  last_key_refresh_time: Instant::now()
NewRefreshTime == now

\* lib.rs:134-146 then lib.rs:58-78 (new) or lib.rs:87 (refresh_validation_keys):
\* the key-set document arrives and its records are converted
KeysArrive(doc) ==
    /\ pc = "jwks"
    /\ LET c == Collect(doc)
       IN  IF ~c.ok THEN ReturnErr(c.err)
           ELSE IF caller = "new"
           THEN /\ exists' = TRUE
                /\ tenant_name' = loc.tenant
                /\ policy_name' = loc.policy
                /\ keys' = c.keys
                /\ validation' = NewValidation(loc.app_ids, loc.issuer)
                /\ last_key_refresh_time' = NewRefreshTime
                /\ snapKeys' = c.keys
                /\ app_ids_given' = loc.app_ids
                /\ built_at' = now
                /\ stable' = [keys |-> keys', time |-> last_key_refresh_time',
                              validation |-> validation']
                /\ last' = [Result("new", "Ok", NoErr) EXCEPT
                               !.net = loc.gets, !.doc = doc, !.iss = loc.issuer,
                               !.at = now]
                /\ caller' = "none"
                /\ pc' = "idle"
                /\ loc' = NoLoc
                /\ UNCHANGED <<now, nadv, nref, k1ValidGen, retry, attempts>>
           ELSE /\ pc' = "l88"
                /\ loc' = [loc EXCEPT !.doc = doc, !.keys = c.keys]
                /\ attempts' = Count(0)
                /\ UNCHANGED <<obj, now, nadv, caller, last, hist, retry>>

\* lib.rs:52-58  AzureAd::new is called: the discovery GET is sent
New(tenant, policy, app_ids) ==
    /\ ~exists
    /\ caller = "none"
    /\ caller' = "new"
    /\ pc' = "meta"
    /\ loc' = [NoLoc EXCEPT !.app_ids = app_ids, !.tenant = tenant, !.policy = policy,
                            !.uri = metadata_uri(tenant, policy), !.gets = 1]
    /\ last' = NoResult
    /\ UNCHANGED <<obj, now, nadv, hist, retry, attempts>>

\* variant: the guard also rejects at exactly the refresh interval
TooSoon_inclusive == ElapsedSecs <= KEYS_REFRESH_FREQUENCY_SECONDS

\* lib.rs:83  the rate-limit guard
TooSoon == ElapsedSecs < KEYS_REFRESH_FREQUENCY_SECONDS

\* lib.rs:84  the error of a refresh that comes too soon
TooSoonError == Error("StrangeKid", None)

\* lib.rs:81-87  refresh_validation_keys is called: the guard, then the
\* discovery GET is sent
refresh_validation_keys ==
    /\ exists
    /\ caller = "none"
    /\ IF TooSoon
       THEN /\ last' = [Result("refresh", "Err", TooSoonError) EXCEPT !.pre = Triple]
            /\ retry' = Track(IF retry.stage = "need" THEN Retry(retry.tok, "rejected")
                               ELSE NoRetry)
            /\ attempts' = Count(0)
            /\ UNCHANGED <<obj, now, nadv, caller, pc, loc, hist>>
       ELSE /\ caller' = "refresh"
            /\ pc' = "meta"
            /\ loc' = [NoLoc EXCEPT !.tenant = tenant_name, !.policy = policy_name,
                                    !.uri = metadata_uri(tenant_name, policy_name),
                                    !.gets = 1, !.pre = Triple]
            /\ last' = NoResult
            /\ retry' = Track(IF retry.stage = "need" THEN Retry(retry.tok, "fetching")
                               ELSE NoRetry)
            /\ attempts' = Count(IF attempts < MaxAttempts THEN attempts + 1 ELSE attempts)
            /\ UNCHANGED <<obj, now, nadv, hist>>

\* lib.rs:88
Line88 ==
    /\ pc = "l88"
    /\ keys' = AssignKeys(keys, loc.keys)
    /\ snapKeys' = loc.keys
    /\ pc' = "l89"
    /\ loc' = [loc EXCEPT !.doc = NoDoc]
    /\ UNCHANGED <<exists, tenant_name, policy_name, last_key_refresh_time, validation,
                   now, nadv, caller, last, stable, nref, k1ValidGen, retry,
                   app_ids_given, built_at, attempts>>

\* lib.rs:89-91
Line89 ==
    /\ pc = "l89"
    /\ validation' = SetIssuer(validation, loc.issuer)
    /\ pc' = "l92"
    /\ UNCHANGED <<exists, tenant_name, policy_name, keys, last_key_refresh_time,
                   now, nadv, caller, loc, last, hist, retry, attempts>>

\* lib.rs:92-94
Line92 ==
    /\ pc = "l92"
    /\ last_key_refresh_time' = now
    /\ stable' = [keys |-> keys, time |-> now, validation |-> validation]
    /\ last' = [Result("refresh", "Ok", NoErr) EXCEPT
                   !.net = loc.gets, !.iss = loc.issuer, !.pre = loc.pre, !.at = now]
    /\ nref' = nref + 1
    /\ caller' = "none"
    /\ pc' = "idle"
    /\ loc' = NoLoc
    /\ retry' = Track(IF retry.stage = "fetching" THEN Retry(retry.tok, "refreshed")
                       ELSE NoRetry)
    /\ attempts' = Count(0)
    /\ UNCHANGED <<exists, tenant_name, policy_name, keys, validation,
                   now, nadv, snapKeys, k1ValidGen, app_ids_given, built_at>>

(***************************************************************************)
(* validate_access_token (lib.rs:97-112).                                  *)
(***************************************************************************)
Outcome(res, err, claims) == [res |-> res, err |-> err, claims |-> claims]

\* variant: an unknown key id is an error (Error::StrangeKid) instead of a miss
validate_access_token_strange(token) ==
    LET h == decode_header(token)
        key_id == h.header.kid
    IN  IF ~h.ok THEN Outcome("Err", h.err, NoClaims)
        ELSE IF key_id = None THEN Outcome("Err", Error("MissingKid", None), NoClaims)
        ELSE IF key_id \notin DOMAIN keys
             THEN Outcome("Err", Error("StrangeKid", None), NoClaims)
        ELSE LET d == decode(token, keys[key_id], validation, WallSecs(now))
             IN  IF ~d.ok THEN Outcome("Err", d.err, NoClaims)
                 ELSE Outcome("Valid", NoErr, d.claims)

\* variant: a header without kid is looked up like an unknown key id
validate_access_token_nokid(token) ==
    LET h == decode_header(token)
        key_id == h.header.kid
    IN  IF ~h.ok THEN Outcome("Err", h.err, NoClaims)
        ELSE IF key_id \notin DOMAIN keys THEN Outcome("NeedKeyRefresh", NoErr, NoClaims)
        ELSE LET d == decode(token, keys[key_id], validation, WallSecs(now))
             IN  IF ~d.ok THEN Outcome("Err", d.err, NoClaims)
                 ELSE Outcome("Valid", NoErr, d.claims)

validate_access_token(token) ==
    LET h == decode_header(token)
        key_id == h.header.kid
    IN  IF ~h.ok THEN Outcome("Err", h.err, NoClaims)
        ELSE IF key_id = None THEN Outcome("Err", Error("MissingKid", None), NoClaims)
        ELSE IF key_id \notin DOMAIN keys THEN Outcome("NeedKeyRefresh", NoErr, NoClaims)
        ELSE LET d == decode(token, keys[key_id], validation, WallSecs(now))
             IN  IF ~d.ok THEN Outcome("Err", d.err, NoClaims)
                 ELSE Outcome("Valid", NoErr, d.claims)

\* the key id of a token's header, None for a string that is no JWT
HasKidOf(token) == IF token.wellformed THEN token.hdr.kid ELSE None

\* lib.rs:81  refresh_validation_keys(&mut self): the exclusive borrow lasts as
\* long as the refresh call is in flight
MutBorrowed == caller = "refresh"

\* variant: the validator is shared without the borrow rules (interior
\* mutability with no lock around the triple)
CanBorrowShared_unchecked == TRUE

\* lib.rs:98  validate_access_token(&self): a shared borrow, which the
\* compiler grants only while no exclusive borrow is alive
CanBorrowShared == ~MutBorrowed

\* variant: a token that fails verification evicts the key it names
Validate_evict(token) ==
    /\ exists
    /\ CanBorrowShared
    /\ LET r == validate_access_token(token)
           again == retry.stage = "refreshed" /\ retry.tok = token
       IN  /\ last' = [Result("validate", r.res, r.err) EXCEPT
                          !.tok = token, !.claims = r.claims, !.obs = Triple]
           /\ retry' = Track(IF again THEN Retry(token, "done")
                              ELSE IF r.res = "NeedKeyRefresh" THEN Retry(token, "need")
                              ELSE NoRetry)
           /\ k1ValidGen' = IF token = K1Token /\ r.res = "Valid" THEN nref ELSE k1ValidGen
           /\ attempts' = Count(0)
           /\ keys' = IF r.res = "Err" /\ r.err.kind = "Jwt" /\ HasKidOf(token) \in DOMAIN keys
                      THEN [k \in DOMAIN keys \ {HasKidOf(token)} |-> keys[k]]
                      ELSE keys
    /\ UNCHANGED <<exists, tenant_name, policy_name, last_key_refresh_time, validation,
                   now, nadv, caller, pc, loc, snapKeys, stable, nref, app_ids_given,
                   built_at>>

\* lib.rs:97-112  validate_access_token(&self, access_token) runs to its end
\* in one step: it has no await
Validate(token) ==
    /\ exists
    /\ CanBorrowShared
    /\ LET r == validate_access_token(token)
           again == retry.stage = "refreshed" /\ retry.tok = token
       IN  /\ last' = [Result("validate", r.res, r.err) EXCEPT
                          !.tok = token, !.claims = r.claims, !.obs = Triple]
           /\ retry' = Track(IF again THEN Retry(token, "done")
                              ELSE IF r.res = "NeedKeyRefresh" THEN Retry(token, "need")
                              ELSE NoRetry)
           /\ k1ValidGen' = IF token = K1Token /\ r.res = "Valid" THEN nref ELSE k1ValidGen
           /\ attempts' = Count(0)
    /\ UNCHANGED <<obj, now, nadv, caller, pc, loc, snapKeys, stable, nref, app_ids_given,
                   built_at>>

Next ==
    \/ \E d \in Deltas : Advance(d)
    \/ \E t \in Tenants, p \in Policies, a \in AppIdChoices : New(t, p, a)
    \/ \E e \in HttpErrors : MetaFails(e)
    \/ \E m \in OidMetadata : MetaArrives(m)
    \/ \E e \in HttpErrors : KeysFail(e)
    \/ \E doc \in KeysMetadata : KeysArrive(doc)
    \/ refresh_validation_keys
    \/ Line88
    \/ Line89
    \/ Line92
    \/ \E token \in CallerTokens : Validate(token)

Spec == Init /\ [][Next]_vars

\* behaviours in which the conduct of a caller is observed (its retry
\* protocol, its consecutive refresh attempts): the same validator, presented
\* with the tokens of RetryTokens
InitRetry ==
    /\ exists = FALSE
    /\ tenant_name = None
    /\ policy_name = None
    /\ keys = EmptyKeys
    /\ last_key_refresh_time = 0
    /\ validation = NoTriple.validation
    /\ now = 0
    /\ nadv = 0
    /\ caller = "none"
    /\ pc = "idle"
    /\ loc = NoLoc
    /\ last = NoResult
    /\ snapKeys = EmptyKeys
    /\ stable = NoTriple
    /\ nref = 0
    /\ k1ValidGen = 0 - 1
    /\ retry = NoRetry
    /\ app_ids_given = NoList
    /\ built_at = 0
    /\ attempts = 0

NextRetry ==
    \/ \E d \in Deltas : Advance(d)
    \/ \E t \in Tenants, p \in Policies, a \in AppIdChoices : New(t, p, a)
    \/ \E e \in HttpErrors : MetaFails(e)
    \/ \E m \in OidMetadata : MetaArrives(m)
    \/ \E e \in HttpErrors : KeysFail(e)
    \/ \E doc \in KeysMetadata : KeysArrive(doc)
    \/ refresh_validation_keys
    \/ Line88
    \/ Line89
    \/ Line92
    \/ \E token \in RetryTokens : Validate(token)

SpecRetry == InitRetry /\ [][NextRetry]_vars

(***************************************************************************)
(* Properties.                                                             *)
(***************************************************************************)
Validated == last.op = "validate"
\* validate_access_token can be called: the validator exists and is not
\* exclusively borrowed
Callable == exists /\ CanBorrowShared
HasKid(token) == token.wellformed /\ token.hdr.kid # None

\* the claims of a payload satisfy the policy in force at wall-clock second secs
SatisfiesPolicy(payload, secs) ==
    /\ payload.iss # Absent /\ payload.sub # Absent /\ payload.aud # Absent
    /\ payload.exp # AbsentNum /\ payload.nbf # AbsentNum
    /\ payload.exp >= secs - DefaultLeeway
    /\ payload.nbf <= secs + DefaultLeeway
    /\ validation.aud # NoList => payload.aud \in validation.aud[1]
    /\ validation.iss # NoList => payload.iss \in validation.iss[1]

\* the payload deserializes into the caller's claims type
FitsClaimsType(payload) == payload.sub # Absent /\ payload.name # Absent

\* C1: a token whose header carries a key identifier that the KeySet does not
\* hold is answered NeedKeyRefresh, with no error and no claims, whatever its
\* algorithm, signature and claims are
C1_AbsentKidNeedsRefresh ==
    /\ Callable =>
         \A token \in Tokens :
            (HasKid(token) /\ token.hdr.kid \notin DOMAIN keys)
               => validate_access_token(token) = Outcome("NeedKeyRefresh", NoErr, NoClaims)
    /\ (Validated /\ HasKid(last.tok) /\ last.tok.hdr.kid \notin DOMAIN last.obs.keys)
          => (last.res = "NeedKeyRefresh" /\ last.err = NoErr)

C1_Witness ==
    /\ Validated
    /\ last.tok.wellformed
    /\ last.tok.hdr.alg = "HS256"
    /\ last.tok.hdr.kid = "k2"
    /\ last.tok.payload.exp = ExpPast
    /\ DOMAIN keys = {"k1"}
    /\ last.res = "NeedKeyRefresh"

\* C8: a token whose header has no key identifier is refused with the
\* MissingKid error, whatever the KeySet holds
C8_NoKidIsMissingKid ==
    /\ Callable =>
         \A token \in Tokens :
            (token.wellformed /\ token.hdr.kid = None)
               => validate_access_token(token) = Outcome("Err", Error("MissingKid", None), NoClaims)
    /\ (Validated /\ last.tok.wellformed /\ last.tok.hdr.kid = None)
          => (last.res = "Err" /\ last.err.kind = "MissingKid")

C8_Witness ==
    /\ Validated
    /\ last.tok.wellformed
    /\ last.tok.hdr.kid = None
    /\ DOMAIN keys = {"k1", "k2"}
    /\ last.err.kind = "MissingKid"

\* a token is good when its key is cached, its RS256 signature verifies under
\* that key and its claims satisfy the policy
GoodToken(token) ==
    /\ HasKid(token)
    /\ token.hdr.kid \in DOMAIN keys
    /\ token.hdr.alg = "RS256"
    /\ token.sig = keys[token.hdr.kid]
    /\ SatisfiesPolicy(token.payload, WallSecs(now))

C10_OtherAlgorithmFails ==
    /\ Callable =>
         \A token \in Tokens :
            (HasKid(token) /\ token.hdr.kid \in DOMAIN keys /\ token.hdr.alg # "RS256")
               => validate_access_token(token).res = "Err"
    /\ (Validated /\ HasKid(last.tok) /\ last.tok.hdr.kid \in DOMAIN last.obs.keys
          /\ last.tok.hdr.alg # "RS256")
          => (last.res = "Err" /\ last.err = Error("Jwt", "InvalidAlgorithm"))

C10_Witness ==
    /\ Validated
    /\ last.tok.wellformed
    /\ last.tok.hdr.alg = "HS256"
    /\ last.tok.hdr.kid = "k1"
    /\ "k1" \in DOMAIN keys
    /\ last.tok.sig = keys["k1"]
    /\ last.err = Error("Jwt", "InvalidAlgorithm")

\* a step in which refresh_validation_keys is called
RefreshCalled ==
    /\ exists
    /\ caller = "none"
    /\ \/ caller' = "refresh"
       \/ caller' = "none" /\ last'.op = "refresh" /\ last' # last

\* C2 as stated: a refresh called less than 8 hours after the last successful
\* one fails with the RateLimited kind and sends no GET, and a refresh sends a
\* GET only when at least 8 hours have passed
C2_TooSoonIsRateLimited ==
    [][/\ (RefreshCalled /\ ElapsedSecs < 8 * 60 * 60)
            => /\ caller' = "none"
               /\ last'.res = "Err"
               /\ last'.err.kind = "RateLimited"
               /\ last'.net = 0
       /\ (RefreshCalled /\ caller' = "refresh") => ElapsedSecs >= 8 * 60 * 60]_vars

\* C3 as stated: the second of two refresh calls inside the minimum interval
\* fails with RateLimited and leaves key set, timestamp and policy as they were
C3_SecondCallRateLimited ==
    [][(RefreshCalled /\ last.op = "refresh" /\ ElapsedSecs < 8 * 60 * 60)
          => /\ last'.res = "Err"
             /\ last'.err.kind = "RateLimited"
             /\ Triple' = Triple]_vars

\* C4: a refresh that passed the guard and failed returns the error and leaves
\* key set, timestamp and policy what they were before the call; they are also
\* untouched for as long as the fetch is in flight
C4_FailedRefreshLeavesState ==
    /\ (last.op = "refresh" /\ last.res = "Err" /\ last.net > 0)
          => /\ Triple = last.pre
             /\ last.err.kind \in {"Http", "Jwt"}
    /\ (caller = "refresh" /\ pc \in {"meta", "jwks", "l88"}) => Triple = loc.pre

C4_Witness ==
    /\ last.op = "refresh"
    /\ last.err = Error("Jwt", "Base64")
    /\ last.net = 2
    /\ DOMAIN keys = {"k1", "k2"}
    /\ validation.iss = SomeList({"issA"})
    /\ last_key_refresh_time < now

\* ks is the key set of the document doc: the key ids of doc, each with the
\* modulus of a record of doc that carries this key id
IsKeySetOf(ks, doc) ==
    /\ DOMAIN ks = {doc[i].key_id : i \in 1..Len(doc)}
    /\ \A k \in DOMAIN ks : \E i \in 1..Len(doc) :
          doc[i].key_id = k /\ doc[i].rsa_modulus = ks[k]
    /\ \A k \in DOMAIN ks : \A i \in 1..Len(doc) :
          (doc[i].key_id = k /\ \A j \in (i + 1)..Len(doc) : doc[j].key_id # k)
             => doc[i].rsa_modulus = ks[k]

\* C5: the keys a refresh installs are the key set of the document it fetched,
\* nothing of the old key set stays, the timestamp is the time the refresh
\* ended, and the KeySet is always the key set of one fetched document
C5_WholesaleReplacement ==
    /\ pc = "l88" => IsKeySetOf(loc.keys, loc.doc)
    /\ pc \in {"l89", "l92"} => keys = loc.keys
    /\ exists => keys = snapKeys
    /\ (last.op = "refresh" /\ last.res = "Ok")
          => /\ keys = snapKeys
             /\ last_key_refresh_time = last.at
             /\ last.net = 2
    /\ (last.op = "new" /\ last.res = "Ok") => IsKeySetOf(keys, last.doc)

C5_Witness ==
    /\ last.op = "refresh"
    /\ last.res = "Ok"
    /\ DOMAIN last.pre.keys = {"k1"}
    /\ DOMAIN keys = {"k2"}
    /\ last_key_refresh_time > last.pre.time

\* C6: every Validate decides on the triple left by the last completed
\* construction or refresh, never on a triple a refresh has half written
C6_NoTornRead ==
    /\ Validated => last.obs = stable
    /\ Callable => Triple = stable

\* the triple is half written (new keys, old issuer) and Validate cannot run
C6_Witness ==
    /\ pc = "l89"
    /\ keys # loc.pre.keys
    /\ loc.issuer # None
    /\ validation.iss # SomeList({loc.issuer})
    /\ ~CanBorrowShared
    /\ ~ENABLED (\E token \in CallerTokens : Validate(token))

\* C7: a token with a key id of the last fetched document, signed with the
\* matching private key and with conforming claims is Valid; once the last
\* fetched document omits its key id the same token is answered NeedKeyRefresh
C7_RoundTrip ==
    /\ (Validated /\ HasKid(last.tok) /\ last.tok.hdr.kid \in DOMAIN snapKeys
          /\ last.tok.hdr.alg = "RS256"
          /\ last.tok.sig = snapKeys[last.tok.hdr.kid]
          /\ SatisfiesPolicy(last.tok.payload, WallSecs(now))
          /\ FitsClaimsType(last.tok.payload))
          => last.res = "Valid"
    /\ (Validated /\ HasKid(last.tok) /\ last.tok.hdr.kid \notin DOMAIN snapKeys)
          => last.res = "NeedKeyRefresh"
    /\ k1ValidGen >= 0 => k1ValidGen <= nref

\* K1Token was Valid after one refresh and is answered NeedKeyRefresh after a
\* later one
C7_Witness ==
    /\ k1ValidGen = 1
    /\ nref = 2
    /\ Validated
    /\ last.tok = K1Token
    /\ last.res = "NeedKeyRefresh"
    /\ "k1" \notin DOMAIN snapKeys

\* every record of doc converts into a decoding key
AllConvert(doc) ==
    \A i \in 1..Len(doc) : from_rsa_components(doc[i].rsa_modulus, doc[i].rsa_exponent).ok

\* C11: the constructor either returns a validator whose key set holds every
\* key of the fetched document, or returns the error of the failed fetch or
\* conversion and no validator: no validator exists with a partial key set or
\* with a key set left empty by a failure
C11_ConstructAllOrNothing ==
    /\ (last.op = "new" /\ last.res = "Ok")
          => /\ exists
             /\ AllConvert(last.doc)
             /\ IsKeySetOf(keys, last.doc)
             /\ last.net = 2
    /\ (last.op = "new" /\ last.res = "Err")
          => /\ ~exists
             /\ last.net \in {1, 2}
             /\ last.err \in HttpErrors \cup {Error("Jwt", "Base64")}
             /\ last.net = 1 => last.err \in HttpErrors
    /\ ~exists => (keys = EmptyKeys /\ validation = NoTriple.validation)
    /\ caller = "new" => ~exists

\* the conversion of a key record failed after both GETs: no validator
C11_Witness ==
    /\ last.op = "new"
    /\ last.res = "Err"
    /\ last.err = Error("Jwt", "Base64")
    /\ last.net = 2
    /\ ~exists
    /\ keys = EmptyKeys

\* C12: a caller whose token was answered NeedKeyRefresh, whose refresh then
\* succeeded and who presented the token again has its final outcome: that
\* second answer is NeedKeyRefresh exactly when the key id of the token is not
\* in the document fetched by that refresh; the protocol took one successful
\* refresh and two validations
C12_RetryProtocolSettles ==
    /\ retry.stage = "done"
          => /\ Validated
             /\ last.tok = retry.tok
             /\ HasKid(retry.tok)
             /\ last.res = "NeedKeyRefresh" <=> retry.tok.hdr.kid \notin DOMAIN snapKeys
             /\ last.obs.keys = snapKeys
             /\ nref >= 1
    /\ retry.stage = "need"
          => (Validated /\ last.tok = retry.tok /\ last.res = "NeedKeyRefresh")
    /\ retry.stage = "fetching" => (caller = "refresh" /\ HasKid(retry.tok))
    /\ retry.stage = "refreshed"
          => (last.op = "refresh" /\ last.res = "Ok" /\ keys = snapKeys)

\* the retried token is Valid: the refresh brought the key it names
C12_Witness ==
    /\ retry.stage = "done"
    /\ retry.tok = K1Token
    /\ last.res = "Valid"
    /\ nref = 1
    /\ "k1" \in DOMAIN snapKeys

\* the token has a cached key, verifies under it with RS256, fits the caller's
\* claims type and satisfies every rule of the policy other than the audience
AllElseValid(token, v, ks, secs) ==
    /\ HasKid(token)
    /\ token.hdr.kid \in DOMAIN ks
    /\ token.hdr.alg = "RS256"
    /\ token.sig = ks[token.hdr.kid]
    /\ FitsClaimsType(token.payload)
    /\ token.payload.iss # Absent
    /\ token.payload.exp # AbsentNum /\ token.payload.nbf # AbsentNum
    /\ token.payload.exp >= secs - DefaultLeeway
    /\ token.payload.nbf <= secs + DefaultLeeway
    /\ v.iss # NoList => token.payload.iss \in v.iss[1]

\* C13: a token with audience "app-A" and all else valid is Valid when the
\* validator was constructed with an allow-list that includes "app-A" and is
\* refused with an error when it was constructed with an allow-list that
\* excludes it; the allow-list in force is the one given to the constructor,
\* also after refreshes
C13_AudienceEnforced ==
    /\ exists => validation.aud = app_ids_given
    /\ (Validated /\ last.tok.payload.aud = "app-A" /\ app_ids_given # NoList
          /\ AllElseValid(last.tok, last.obs.validation, last.obs.keys, WallSecs(now)))
          => IF "app-A" \in app_ids_given[1]
             THEN last.res = "Valid"
             ELSE last.res = "Err" /\ last.err = Error("Jwt", "InvalidAudience")
    /\ Callable =>
          \A token \in CallerTokens :
             (token.payload.aud = "app-A" /\ app_ids_given # NoList
                /\ AllElseValid(token, validation, keys, WallSecs(now)))
                => (validate_access_token(token).res = "Valid" <=> "app-A" \in app_ids_given[1])

\* after a refresh, a token with audience "app-A" is refused by a validator
\* constructed with the allow-list {"app-B"}
C13_Witness ==
    /\ Validated
    /\ nref >= 1
    /\ app_ids_given = SomeList({"app-B"})
    /\ last.tok = K1Token
    /\ last.err = Error("Jwt", "InvalidAudience")

\* the token has a cached key, verifies under it with RS256, fits the caller's
\* claims type, carries every required claim and has the audience and the
\* issuer the policy asks for
AllButTimeValid(token) ==
    /\ HasKid(token)
    /\ token.hdr.kid \in DOMAIN keys
    /\ token.hdr.alg = "RS256"
    /\ token.sig = keys[token.hdr.kid]
    /\ FitsClaimsType(token.payload)
    /\ token.payload.iss # Absent /\ token.payload.aud # Absent
    /\ token.payload.exp # AbsentNum /\ token.payload.nbf # AbsentNum
    /\ validation.aud # NoList => token.payload.aud \in validation.aud[1]
    /\ validation.iss # NoList => token.payload.iss \in validation.iss[1]

\* C14 as stated: with a key hit and all else valid, a token whose expiry is
\* in the past is refused with an error, and a token whose expiry is in the
\* future and whose not-before is in the past is Valid
C14_ExpiryBoundary ==
    Callable =>
      \A token \in RetryTokens :
         AllButTimeValid(token) =>
            /\ (token.payload.exp < WallSecs(now) /\ token.payload.nbf < WallSecs(now))
                  => validate_access_token(token).res = "Err"
            /\ (token.payload.exp > WallSecs(now) /\ token.payload.nbf < WallSecs(now))
                  => validate_access_token(token).res = "Valid"

\* a step in which validate_access_token is called and returns: the clock
\* stands still and the last completed call is a validation
ValidateReturned == exists /\ caller = "none" /\ nadv' = nadv /\ last'.op = "validate"

\* C15: a Validate call, whatever it answers, leaves key set, timestamp,
\* policy, tenant and policy names as they were, sends no GET and does not
\* suspend; the triple of an existing validator changes only in the
\* assignments of a refresh whose fetch succeeded
C15_ValidateChangesNothing ==
    [][/\ ValidateReturned
            => /\ obj' = obj
               /\ caller' = caller /\ pc' = pc /\ loc' = loc
               /\ now' = now
               /\ last'.net = 0
               /\ last'.obs = Triple'
       /\ (exists /\ Triple' # Triple)
            => /\ caller = "refresh"
               /\ pc \in {"l88", "l89", "l92"}
               /\ loc.gets = 2]_vars

\* a Validate answered with an error by a validator that has been refreshed
C15_Witness ==
    /\ Validated
    /\ last.res = "Err"
    /\ last.err = Error("Jwt", "InvalidSignature")
    /\ nref >= 1
    /\ Triple = last.obs
    /\ last.tok.hdr.kid \in DOMAIN keys

\* the rules of a Validation other than the expected issuer
OtherRules(v) == [v EXCEPT !.iss = NoList]

\* C16: after a successful refresh the expected issuer is the issuer of the
\* fetched discovery document when it has one, and the issuer in force before
\* the refresh when it has none; algorithm, required claims, exp/nbf rules,
\* leeway and audience allow-list are those from before the refresh.  The
\* constructor, in contrast, checks no issuer when the document has none
C16_RefreshKeepsOldIssuer ==
    /\ (last.op = "refresh" /\ last.res = "Ok")
          => /\ validation.iss = IF last.iss # None THEN SomeList({last.iss})
                                  ELSE last.pre.validation.iss
             /\ OtherRules(validation) = OtherRules(last.pre.validation)
    /\ pc = "l92"
          => /\ validation.iss = IF loc.issuer # None THEN SomeList({loc.issuer})
                                  ELSE loc.pre.validation.iss
             /\ OtherRules(validation) = OtherRules(loc.pre.validation)
    /\ (last.op = "new" /\ last.res = "Ok")
          => validation = NewValidation(app_ids_given, last.iss)
    /\ exists => OtherRules(validation) = OtherRules(NewValidation(app_ids_given, None))

\* the refreshed document has no issuer; the policy still expects the old
\* issuer and so differs from the one the constructor builds from this document
C16_Witness ==
    /\ last.op = "refresh"
    /\ last.res = "Ok"
    /\ last.iss = None
    /\ last.pre.validation.iss = SomeList({"issA"})
    /\ validation.iss = SomeList({"issA"})
    /\ validation # NewValidation(app_ids_given, last.iss)

\* C17: a refresh call passes the guard exactly when the time since the last
\* successful refresh, cut to whole seconds, is at least 28800: it is
\* attempted at exactly 8 hours and rejected, with no GET, at anything less
C17_GuardAtEightHours ==
    [][RefreshCalled
          => /\ caller' = "refresh" <=> now - last_key_refresh_time >= 28800 * TicksPerSec
             /\ caller' = "refresh" => (pc' = "meta" /\ loc'.gets = 1)
             /\ caller' = "none" => (last'.res = "Err" /\ last'.net = 0 /\ obj' = obj)]_vars

\* a refresh attempted at exactly 8 hours after the last successful one
C17_Witness ==
    /\ caller = "refresh"
    /\ pc = "meta"
    /\ loc.gets = 1
    /\ now - loc.pre.time = RefreshTicks
    /\ now - last_key_refresh_time = 28800 * TicksPerSec

\* C18: the constructor sets the timestamp, so the guard counts the
\* construction like a successful refresh: every assignment of the key set
\* comes at least 8 hours after the one before it (construction included), a
\* refresh call gets past the guard only 8 hours or more after the constructor
\* returned, and a call that comes sooner is rejected without a GET, also when
\* the caller makes it because a token was answered NeedKeyRefresh
C18_ConstructCountsAsRefresh ==
    /\ (last.op = "new" /\ last.res = "Ok")
          => (last_key_refresh_time = last.at /\ built_at = last.at)
    /\ (exists /\ nref = 0) => last_key_refresh_time = built_at
    /\ caller = "refresh"
          => /\ now - built_at >= RefreshTicks
             /\ now - loc.pre.time >= RefreshTicks
    /\ (last.op = "refresh" /\ last.net > 0) => now - built_at >= RefreshTicks
    /\ (last.op = "refresh" /\ last.res = "Ok")
          => /\ last_key_refresh_time = last.at
             /\ last.at - last.pre.time >= RefreshTicks
    /\ retry.stage = "rejected"
          => /\ last.op = "refresh" /\ last.res = "Err" /\ last.net = 0
             /\ Triple = last.pre
             /\ retry.tok.hdr.kid \notin DOMAIN keys

\* half a second before 8 hours after construction a token names a key that
\* is not cached; the refresh the caller asks for is rejected
C18_Witness ==
    /\ retry.stage = "rejected"
    /\ retry.tok = K1Token
    /\ nref = 0
    /\ now - built_at = RefreshTicks - 1
    /\ last.err = TooSoonError
    /\ DOMAIN keys = {"k2"}

\* the last completed call is a refresh that passed the guard and failed
FetchFailed == last.op = "refresh" /\ last.res = "Err" /\ last.net > 0

\* C19: a refresh that passed the guard and failed leaves the timestamp where
\* it was, so the guard lets the next call through at once and that call sends
\* a GET again: after 8 hours without success the guard puts no bound on the
\* number of consecutive fetching attempts
C19_FailureDoesNotThrottle ==
    /\ FetchFailed
          => /\ last_key_refresh_time = last.pre.time
             /\ exists /\ caller = "none" /\ ~TooSoon
    /\ attempts >= 1
          => /\ now - last_key_refresh_time >= RefreshTicks
             /\ FetchFailed \/ caller = "refresh"
    /\ (caller = "refresh" /\ pc \in {"meta", "jwks"})
          => (attempts >= 1 /\ loc.gets >= 1 /\ last_key_refresh_time = loc.pre.time)

\* MaxAttempts refresh calls in a row have sent GETs and failed, all of them
\* exactly 8 hours after the last success, the last one after both GETs
C19_Witness ==
    /\ FetchFailed
    /\ attempts = MaxAttempts
    /\ last.net = 2
    /\ now - last_key_refresh_time = RefreshTicks
    /\ nref = 1

=============================================================================
